---- MODULE Spec2Model ----
(***************************************************************************)
(* Model of metapupil/tomography.py: the tomography class (projection      *)
(* matrix cache, stacking, turbulence draws, forward model, least-squares  *)
(* and l1 solvers).                                                        *)
(*                                                                         *)
(* Conventions.                                                            *)
(*  - A numpy array is a function whose domain is 0..n-1 (a vector) or a   *)
(*    set of index tuples (a matrix or tensor), so indices are the         *)
(*    source's 0-based indices.                                            *)
(*  - A Python object or dict is a function from names to values whose     *)
(*    DOMAIN holds exactly the attributes / keys that exist.               *)
(*  - A float that the code computes by exact rational steps is the pair   *)
(*    <<numerator, denominator>>; a float that comes out of a special      *)
(*    function or of an external routine is a term (a record naming the    *)
(*    routine and its arguments).                                          *)
(***************************************************************************)
EXTENDS Integers, Sequences, FiniteSets, TLC

VARIABLES
    files,      \* matrices/transformationMatrices_*.npz: the set of stored records
    self,       \* the tomography object the driver currently holds
    call,       \* the last call made on it: its name and arguments
    err,        \* the exception that call raised, "None" when it returned
    bMeasured,  \* the driver's bMeasured: the last value generateWFS returned
    drawn,      \* the last value np.random.multivariate_normal returned
    computed    \* projection matrices computed by the last constructor call

vars == <<files, self, call, err, bMeasured, drawn, computed>>

(***************************************************************************)
(* Bounds of the model.                                                    *)
(***************************************************************************)
MaxStars == 2
MaxZernike == 2
MaxHeights == 2
MaxFiles == 2

----------------------------------------------------------------------------
(***************************************************************************)
(* Arrays, objects.                                                        *)
(***************************************************************************)
Len0(a) == Cardinality(DOMAIN a)

Range(a) == {a[k] : k \in DOMAIN a}

Has(obj, name) == name \in DOMAIN obj

SetAttr(obj, name, v) == (name :> v) @@ obj

NoObject == [n \in {} |-> 0]

Zero == [kind |-> "zero"]

Zeros(R, C) == [p \in (0..(R - 1)) \X (0..(C - 1)) |-> Zero]

\* the k-th smallest (k from 0) element of a finite set of integers
Nth(S, k) == CHOOSE x \in S : Cardinality({y \in S : y < x}) = k

even(x) == x % 2 = 0

----------------------------------------------------------------------------
(***************************************************************************)
(* tomography.__init__: the geometry of every (height, star) pair.         *)
(***************************************************************************)
ArcsecPerRadian == 206265

MetresPerKm == 1000

\* fov / 206265.0
FovRadians(fov) == <<fov, ArcsecPerRadian>>

\* heights * 1e3
HeightsMetres(heights) == [i \in DOMAIN heights |-> heights[i] * MetresPerKm]

\* DTel + heights[i] * fov, over fov's denominator
DMetapupil(DTel, hm, fovRad) == <<DTel * fovRad[2] + hm * fovRad[1], fovRad[2]>>

\* (heights[i] * fov) / DMetapupil[i]: the common denominator cancels
GeomT(DTel, hm, fovRad) == <<hm * fovRad[1], DMetapupil(DTel, hm, fovRad)[1]>>

\* DMetapupil[i] / DTel
GeomBeta(DTel, hm, fovRad) ==
    <<DMetapupil(DTel, hm, fovRad)[1], DMetapupil(DTel, hm, fovRad)[2] * DTel>>

\* j * 2.0 * pi / nStars, in units of pi
GeomAngle(j, nStars) == <<2 * j, nStars>>

\* the attributes set by lines 34-66 of the constructor
NewObject(nStars, nZernike, fov, heights, DTel, verbose, numericalProjection, addPiston) ==
    LET nHeight == Len0(heights)
        hm == HeightsMetres(heights)
        fovRad == FovRadians(fov)
        pairs == (0..(nHeight - 1)) \X (0..(nStars - 1))
    IN  [nHeight |-> nHeight,
         nStars |-> nStars,
         nZernike |-> nZernike,
         fov |-> fovRad,
         heights |-> hm,
         DTel |-> DTel,
         verbose |-> verbose,
         MComputed |-> FALSE,
         numericalProjection |-> numericalProjection,
         addPiston |-> addPiston,
         noll0 |-> IF ~addPiston THEN 2 ELSE 1,
         DMetapupil |-> [i \in DOMAIN hm |-> DMetapupil(DTel, hm[i], fovRad)],
         t |-> [p \in pairs |-> GeomT(DTel, hm[p[1]], fovRad)],
         beta |-> [p \in pairs |-> GeomBeta(DTel, hm[p[1]], fovRad)],
         angle |-> [p \in pairs |-> GeomAngle(p[2], nStars)]]

(***************************************************************************)
(* projection.zernikeProjectionMatrixNumerical / zernikeProjectionMatrix:  *)
(* the external geometry routine, a deterministic function of its          *)
(* arguments.  Entry (r, c) of its result is the term naming the call.     *)
(***************************************************************************)
ZernikeProjectionMatrix(numerical, nZernike, beta, t, angle) ==
    [p \in (0..(nZernike - 1)) \X (0..(nZernike - 1)) |->
        [kind |-> "proj", numerical |-> numerical, n |-> nZernike,
         beta |-> beta, t |-> t, angle |-> angle, r |-> p[1], c |-> p[2]]]

(***************************************************************************)
(* tomography.stackProjection                                              *)
(***************************************************************************)
\* A[up:down, left:right] = B
SliceAssign(A, up, down, left, right, B) ==
    [p \in DOMAIN A |->
        IF up <= p[1] /\ p[1] < down /\ left <= p[2] /\ p[2] < right
        THEN B[<<p[1] - up, p[2] - left>>]
        ELSE A[p]]

\* M[:,:,i,j]
Block(M, nZernike, i, j) ==
    [p \in (0..(nZernike - 1)) \X (0..(nZernike - 1)) |-> M[<<p[1], p[2], i, j>>]]

\* StackStep with the row and the column offsets exchanged
StackStepSwapped(obj, MStack, i, j) ==
    LET left == j * obj.nZernike
        right == (j + 1) * obj.nZernike
        up == i * obj.nZernike
        down == (i + 1) * obj.nZernike
    IN  SliceAssign(MStack, up, down, left, right, Block(obj.M, obj.nZernike, i, j))

\* the body of the two loops for one (i, j)
StackStep(obj, MStack, i, j) ==
    LET left == i * obj.nZernike
        right == (i + 1) * obj.nZernike
        up == j * obj.nZernike
        down == (j + 1) * obj.nZernike
    IN  SliceAssign(MStack, up, down, left, right, Block(obj.M, obj.nZernike, i, j))

\* the loops, k = i * nStars + j counting their iterations
RECURSIVE StackLoop(_, _, _)
StackLoop(obj, MStack, k) ==
    IF k = obj.nHeight * obj.nStars
    THEN MStack
    ELSE StackLoop(obj, StackStep(obj, MStack, k \div obj.nStars, k % obj.nStars), k + 1)

stackProjection(obj) ==
    SetAttr(obj, "MStack",
            StackLoop(obj, Zeros(obj.nZernike * obj.nStars, obj.nZernike * obj.nHeight), 0))

(***************************************************************************)
(* tomography.projectionExists                                             *)
(***************************************************************************)
\* np.where(np.in1d(heights, self.heights))[0]: the positions of the stored
\* heights that occur among the requested ones, ascending
In1dWhere(stored, requested) ==
    LET S == {k \in DOMAIN stored : stored[k] \in Range(requested)}
    IN  [k \in 0..(Cardinality(S) - 1) |-> Nth(S, k)]

\* RecordMatches asking for strictly more modes than requested
RecordMatchesStrict(f, obj) ==
    /\ Len0(In1dWhere(f.arr_1, obj.heights)) = obj.nHeight
    /\ f.arr_2 = obj.nStars
    /\ f.arr_3 > obj.nZernike
    /\ f.arr_4 = obj.fov
    /\ f.arr_5 = obj.DTel

\* the two conditions under which the loop body returns True for record f
RecordMatches(f, obj) ==
    /\ Len0(In1dWhere(f.arr_1, obj.heights)) = obj.nHeight
    /\ f.arr_2 = obj.nStars
    /\ f.arr_3 >= obj.nZernike
    /\ f.arr_4 = obj.fov
    /\ f.arr_5 = obj.DTel

\* out['arr_0'][0:self.nZernike, 0:self.nZernike, ind, :]
SliceRecord(f, obj) ==
    LET ind == In1dWhere(f.arr_1, obj.heights)
    IN  [p \in (0..(obj.nZernike - 1)) \X (0..(obj.nZernike - 1))
                 \X (DOMAIN ind) \X (0..(f.arr_2 - 1)) |->
            f.arr_0[<<p[1], p[2], ind[p[3]], p[4]>>]]

\* the object after projectionExists returned True on record f
LoadRecord(f, obj) ==
    LET withM == SetAttr(obj, "M", SliceRecord(f, obj))
    IN  IF obj.verbose
        THEN stackProjection([withM EXCEPT !.MComputed = TRUE])
        ELSE withM

(***************************************************************************)
(* tomography.computeProjection                                            *)
(***************************************************************************)
\* the tensor filled by the loops of lines 140-150
ComputedM(obj) ==
    [p \in (0..(obj.nZernike - 1)) \X (0..(obj.nZernike - 1))
             \X (0..(obj.nHeight - 1)) \X (0..(obj.nStars - 1)) |->
        ZernikeProjectionMatrix(obj.numericalProjection, obj.nZernike,
                                obj.beta[<<p[3], p[4]>>], obj.t[<<p[3], p[4]>>],
                                obj.angle[<<p[3], p[4]>>])[<<p[1], p[2]>>]]

\* uuid.uuid4(): a name no stored record has
Uuid4(stored) == Cardinality(stored) + 1

\* the record np.savez writes
SavedRecord(obj, stored) ==
    [id |-> Uuid4(stored), arr_0 |-> obj.M, arr_1 |-> obj.heights, arr_2 |-> obj.nStars,
     arr_3 |-> obj.nZernike, arr_4 |-> obj.fov, arr_5 |-> obj.DTel]

\* the object after computeProjection (self.MComputed is False when it is called)
computeProjection(obj) ==
    IF ~obj.MComputed
    THEN stackProjection(SetAttr(obj, "M", ComputedM(obj)))
    ELSE obj

(***************************************************************************)
(* tomography.__init__, the whole constructor.  glob lists the records in  *)
(* an order the code does not fix, and the first one that matches is used: *)
(* any matching record may be the one loaded.                              *)
(***************************************************************************)
NewDicts(obj) == SetAttr(SetAttr(obj, "aStack", NoObject), "a", NoObject)

TomographyInit(nStars, nZernike, fov, heights, DTel, verbose, numericalProjection, addPiston) ==
    LET obj == NewObject(nStars, nZernike, fov, heights, DTel, verbose,
                         numericalProjection, addPiston)
        args == [op |-> "tomography", nStars |-> nStars, nZernike |-> nZernike,
                 fov |-> fov, heights |-> heights, DTel |-> DTel]
    IN  /\ err' = "None"
        /\ UNCHANGED <<bMeasured, drawn>>
        /\ \/ \E f \in files :
                /\ RecordMatches(f, obj)
                /\ self' = NewDicts(LoadRecord(f, obj))
                /\ files' = files
                /\ computed' = 0
                /\ call' = args @@ [hit |-> TRUE, file |-> f.id]
           \/ /\ \A f \in files : ~RecordMatches(f, obj)
              /\ self' = NewDicts(computeProjection(obj))
              /\ files' = files \cup {SavedRecord(self', files)}
              /\ computed' = obj.nHeight * obj.nStars
              /\ call' = args @@ [hit |-> FALSE, file |-> Uuid4(files)]

----------------------------------------------------------------------------
(***************************************************************************)
(* Matrices and vectors of numpy: transpose, reshape, flatten, product.    *)
(***************************************************************************)
Rows(A) == Cardinality({p[1] : p \in DOMAIN A})

Cols(A) == Cardinality({p[2] : p \in DOMAIN A})

\* A.T
Transpose(A) == [p \in {<<q[2], q[1]>> : q \in DOMAIN A} |-> A[<<p[2], p[1]>>]]

\* A.flatten(): row-major (C order)
Flatten(A) == [k \in 0..(Rows(A) * Cols(A) - 1) |-> A[<<k \div Cols(A), k % Cols(A)>>]]

\* x.reshape((R, C)): row-major (C order)
Reshape(x, R, C) == [p \in (0..(R - 1)) \X (0..(C - 1)) |-> x[p[1] * C + p[2]]]

\* A @ x: entry r is the sum over c of A[r,c] * x[c], kept as the array of
\* its products
MatVec(A, x) ==
    [r \in 0..(Rows(A) - 1) |->
        [c \in 0..(Cols(A) - 1) |-> [m |-> A[<<r, c>>], x |-> x[c]]]]

----------------------------------------------------------------------------
(***************************************************************************)
(* wavefront.nollIndices: radial degree n and azimuthal frequency m of     *)
(* Noll index j >= 1 (m is negative for odd j).                            *)
(***************************************************************************)
NollN(j) == CHOOSE n \in 0..j : /\ 2 * j <= (n + 1) * (n + 2)
                                /\ \A k \in 0..(n - 1) : 2 * j > (k + 1) * (k + 2)

NollM(j) ==
    LET n == NollN(j)
        mprime == j - (n * (n + 1)) \div 2
        m == IF n % 2 = 0 THEN 2 * (mprime \div 2) ELSE 1 + 2 * ((mprime - 1) \div 2)
    IN  IF j % 2 # 0 THEN -m ELSE m

nollIndices(j) == <<NollN(j), NollM(j)>>

(***************************************************************************)
(* The covariance entries.  A product of Gamma functions is the bag of     *)
(* their arguments (multiplication commutes), an argument the rational     *)
(* <<numerator, denominator>>.                                             *)
(***************************************************************************)
GammaProduct(args) ==
    [x \in {args[k] : k \in DOMAIN args} |->
        Cardinality({k \in DOMAIN args : args[k] = x})]

\* (-1.0)**(0.5*(ni+nj-2*mi)), the exponent being an integer
Phase(ni, nj, mi) == IF even((ni + nj - 2 * mi) \div 2) THEN 1 ELSE -1

\* lines 185-189: phase * t1 * t2 / t3
KolmogorovEntry(ni, nj, mi, DTel, r0) ==
    [kind |-> "kolmogorov",
     phase |-> Phase(ni, nj, mi),
     t1 |-> [sqrt |-> (ni + 1) * (nj + 1), coef |-> <<72, 10000>>, DTel |-> DTel, r0 |-> r0],
     t2 |-> GammaProduct(<<<<14, 3>>, <<3 * (ni + nj) - 5, 6>>>>),
     t3 |-> GammaProduct(<<<<3 * (ni - nj) + 17, 6>>, <<3 * (nj - ni) + 17, 6>>,
                           <<3 * (ni + nj) + 23, 6>>>>)]

\* the number of terms of the von Karman series (range(50))
NSeries == 50

\* lines 223-230: the k-th term added to covariance[i,j]
VonKarmanTerm(ni, nj, mi, DTel, r0, L0, k) ==
    [phase |-> Phase(ni, nj, mi),
     t1 |-> [sqrt |-> (ni + 1) * (nj + 1), coef |-> <<116, 100>>, DTel |-> DTel, r0 |-> r0],
     phase2 |-> [sign |-> IF even(k) THEN 1 ELSE -1, factorial |-> k,
                 DTel |-> DTel, L0 |-> L0, power |-> <<6 * k + 3 * (ni + nj) - 5, 3>>],
     t2 |-> GammaProduct(<<<<2 * k + 3 + ni + nj, 2>>, <<2 * k + 4 + ni + nj, 2>>,
                           <<5 * k + 5 + ni + nj, 5>>, <<5 - 6 * k - 3 * (ni + nj), 6>>>>),
     t3 |-> GammaProduct(<<<<3 + k + ni + nj, 1>>, <<2 + k + ni, 1>>, <<2 + k + nj, 1>>>>),
     phase3 |-> [DTel |-> DTel, L0 |-> L0, power |-> <<2 * k, 1>>],
     t4 |-> GammaProduct(<<<<3 * (ni + nj) - 5 - 6 * k, 6>>, <<3 * k + 7, 3>>,
                           <<6 * k + 17, 6>>, <<6 * k + 11, 6>>>>),
     t5 |-> GammaProduct(<<<<3 * (ni + nj) + 23 + 6 * k, 6>>,
                           <<3 * (ni - nj) + 17 + 6 * k, 6>>,
                           <<3 * (ni - nj) + 17 + 6 * k, 6>>>>)]

\* the sum the loop over k leaves in covariance[i,j]
VonKarmanEntry(ni, nj, mi, DTel, r0, L0) ==
    [kind |-> "vonKarman",
     sum |-> [k \in 0..(NSeries - 1) |-> VonKarmanTerm(ni, nj, mi, DTel, r0, L0, k)]]

\* Selected without the test on the azimuthal frequencies
SelectedAnyAzimuth(i, j, noll0) == even(i - j)

\* the selection of lines 183-184 / 217-218
Selected(i, j, noll0) ==
    /\ even(i - j)
    /\ nollIndices(i + noll0)[2] = nollIndices(j + noll0)[2]

\* lines 178-189
KolmogorovCovariance(obj, r0) ==
    [p \in (0..(obj.nZernike - 1)) \X (0..(obj.nZernike - 1)) |->
        IF Selected(p[1], p[2], obj.noll0)
        THEN KolmogorovEntry(nollIndices(p[1] + obj.noll0)[1], nollIndices(p[2] + obj.noll0)[1],
                             nollIndices(p[1] + obj.noll0)[2], obj.DTel, r0)
        ELSE Zero]

\* lines 212-230
VonKarmanCovariance(obj, r0, L0) ==
    [p \in (0..(obj.nZernike - 1)) \X (0..(obj.nZernike - 1)) |->
        IF Selected(p[1], p[2], obj.noll0)
        THEN VonKarmanEntry(nollIndices(p[1] + obj.noll0)[1], nollIndices(p[2] + obj.noll0)[1],
                            nollIndices(p[1] + obj.noll0)[2], obj.DTel, r0, L0)
        ELSE Zero]

(***************************************************************************)
(* The realization draw.  sample is what np.random.multivariate_normal     *)
(* returns: nHeight rows of nZernike values.                               *)
(***************************************************************************)
\* an optional list argument: None, or the list given
None == [given |-> FALSE, list |-> {}]

List(S) == [given |-> TRUE, list |-> S]

\* self.heights[i]/1e3 not in keepOnly
NotInKeepOnly(hm, keepOnly) == \A k \in keepOnly.list : hm # k * MetresPerKm

\* lines 194-197
KeepOnly(obj, A, keepOnly) ==
    IF keepOnly # None
    THEN [p \in DOMAIN A |->
            IF NotInKeepOnly(obj.heights[p[2]], keepOnly) THEN 0 ELSE A[p]]
    ELSE A

\* self.a['Original'] = A; self.aStack['Original'] = self.a['Original'].T.flatten()
StoreOriginal(obj, A) ==
    [obj EXCEPT !.a = SetAttr(@, "Original", A),
                !.aStack = SetAttr(@, "Original", Flatten(Transpose(A)))]

generateTurbulentZernikesKolmogorov(r0, keepOnly, sample) ==
    /\ Has(self, "MComputed")
    /\ call' = [op |-> "generateTurbulentZernikesKolmogorov", keepOnly |-> keepOnly]
    /\ err' = "None"
    /\ drawn' = Transpose(sample)
    /\ self' = StoreOriginal(SetAttr(self, "covariance", KolmogorovCovariance(self, r0)),
                             KeepOnly(self, Transpose(sample), keepOnly))
    /\ UNCHANGED <<files, bMeasured, computed>>

\* the signature of line 202 takes no keepOnly: passing one is a TypeError
\* raised before the body runs
generateTurbulentZernikesVonKarman(r0, L0, keepOnly, sample) ==
    /\ Has(self, "MComputed")
    /\ call' = [op |-> "generateTurbulentZernikesVonKarman", keepOnly |-> keepOnly]
    /\ IF keepOnly # None
       THEN /\ err' = "TypeError"
            /\ UNCHANGED <<self, drawn>>
       ELSE /\ err' = "None"
            /\ drawn' = Transpose(sample)
            /\ self' = StoreOriginal(SetAttr(self, "covariance",
                                             VonKarmanCovariance(self, r0, L0)),
                                     Transpose(sample))
    /\ UNCHANGED <<files, bMeasured, computed>>

(***************************************************************************)
(* tomography.generateWFS                                                  *)
(***************************************************************************)
generateWFS ==
    /\ Has(self, "MComputed")
    /\ call' = [op |-> "generateWFS"]
    /\ IF ~Has(self, "MStack")
       THEN err' = "AttributeError" /\ UNCHANGED bMeasured
       ELSE IF ~Has(self.aStack, "Original")
       THEN err' = "KeyError" /\ UNCHANGED bMeasured
       ELSE err' = "None" /\ bMeasured' = MatVec(self.MStack, self.aStack.Original)
    /\ UNCHANGED <<files, self, drawn, computed>>

(***************************************************************************)
(* tomography.solveSVD.  np.linalg.inv raises LinAlgError when the LU      *)
(* factorisation meets a pivot that is exactly zero; in floating point a   *)
(* singular matrix may leave a tiny nonzero pivot instead, and then inv    *)
(* returns.  zeroPivot says which of the two happened.                     *)
(***************************************************************************)
\* AInv @ self.MStack.T, a matrix of nHeight*nZernike rows and
\* nStars*nZernike columns
AInvMStackT(obj, regularize) ==
    [p \in (0..(obj.nHeight * obj.nZernike - 1)) \X (0..(obj.nStars * obj.nZernike - 1)) |->
        [kind |-> "AInv@MStack.T", regularize |-> regularize, r |-> p[1], c |-> p[2]]]

\* StoreSVD reshaping the solution mode-major
StoreSVDModeMajor(obj, x) ==
    [obj EXCEPT !.aStack = SetAttr(@, "SVD", x),
                !.a = SetAttr(@, "SVD", Reshape(x, obj.nZernike, obj.nHeight))]

\* lines 263-266
StoreSVD(obj, x) ==
    [obj EXCEPT !.aStack = SetAttr(@, "SVD", x),
                !.a = SetAttr(@, "SVD", Transpose(Reshape(x, obj.nHeight, obj.nZernike)))]

\* MStack.T @ MStack has rank at most nStars*nZernike: with fewer stars than
\* heights it is singular whatever the projection matrices are
RankDeficient(obj) == obj.nStars < obj.nHeight

solveSVD(b, regularize, zeroPivot) ==
    /\ Has(self, "MComputed")
    /\ Len0(b) = self.nStars * self.nZernike
    /\ call' = [op |-> "solveSVD", regularize |-> regularize,
                singular |-> (~regularize /\ RankDeficient(self)),
                before |-> [aStack |-> self.aStack, a |-> self.a]]
    /\ IF regularize /\ ~Has(self, "covariance")
       THEN err' = "AttributeError" /\ UNCHANGED self
       ELSE IF ~Has(self, "MStack")
       THEN err' = "AttributeError" /\ UNCHANGED self
       ELSE IF zeroPivot
       THEN err' = "LinAlgError" /\ UNCHANGED self
       ELSE /\ err' = "None"
            /\ self' = StoreSVD(self, MatVec(AInvMStackT(self, regularize), b))
    /\ UNCHANGED <<files, bMeasured, drawn, computed>>

(***************************************************************************)
(* tomography.solveFASTA.  ps.sparse.fasta is external: its result is a    *)
(* vector shaped like its start value, named by the call.                  *)
(***************************************************************************)
Fasta(x0, b) == [k \in DOMAIN x0 |-> [kind |-> "fasta", k |-> k, b |-> b]]

solveFASTA(b) ==
    /\ Has(self, "MComputed")
    /\ Len0(b) = self.nStars * self.nZernike
    /\ call' = [op |-> "solveFASTA"]
    /\ IF ~Has(self, "MStack")
       THEN err' = "AttributeError" /\ UNCHANGED self
       ELSE IF ~Has(self.aStack, "Original")
       THEN /\ err' = "KeyError"
            /\ self' = SetAttr(self, "MStackStar", Transpose(self.MStack))
       ELSE /\ err' = "None"
            /\ self' =
                 LET values == Fasta(self.aStack.Original, b)
                     o == SetAttr(SetAttr(self, "MStackStar", Transpose(self.MStack)),
                                  "mu", <<1, 100000>>)
                 IN  [o EXCEPT !.aStack = SetAttr(@, "L1", values),
                               !.a = SetAttr(@, "L1",
                                     Transpose(Reshape(values, self.nHeight, self.nZernike)))]
    /\ UNCHANGED <<files, bMeasured, drawn, computed>>

----------------------------------------------------------------------------
(***************************************************************************)
(* The inputs of the model.                                                *)
(***************************************************************************)
Altitudes == {0, 4, 16, 20, 25}

\* the altitude grid [km]: the n lowest of Altitudes
HeightGrid(n) == {h \in Altitudes : Cardinality({g \in Altitudes : g < h}) < n}

\* the arrays of 1..n distinct altitudes of the grid, in any order
HeightArrays(n) ==
    UNION {{a \in [0..(m - 1) -> HeightGrid(n)] :
                \A i, j \in 0..(m - 1) : i # j => a[i] # a[j]} : m \in 1..n}

\* the array of the m lowest altitudes, ascending (np.arange-like)
GridArray(m) == [k \in 0..(m - 1) |-> Nth(Altitudes, k)]

Config(nStars, nZernike, fov, heights, DTel, verbose, addPiston) ==
    [nStars |-> nStars, nZernike |-> nZernike, fov |-> fov, heights |-> heights,
     DTel |-> DTel, verbose |-> verbose, numericalProjection |-> TRUE,
     addPiston |-> addPiston]

Tomography(c) ==
    TomographyInit(c.nStars, c.nZernike, c.fov, c.heights, c.DTel, c.verbose,
                   c.numericalProjection, c.addPiston)

\* some stored record serves configuration c
Served(c) ==
    \E f \in files :
        RecordMatches(f, NewObject(c.nStars, c.nZernike, c.fov, c.heights, c.DTel,
                                   c.verbose, c.numericalProjection, c.addPiston))

\* Fried radius 0.15 m, outer scale 10 m
FriedRadius == <<15, 100>>

OuterScale == <<10, 1>>

\* a sample of the normal draw: row l (one per height) holds 10*v[l] + z
SampleOf(v, nZernike) ==
    [p \in (DOMAIN v) \X (0..(nZernike - 1)) |-> 10 * v[p[1]] + p[2]]

Samples(obj, levels) == {SampleOf(v, obj.nZernike) : v \in [0..(obj.nHeight - 1) -> levels]}

\* the sample whose rows are all different
LayeredSample(obj) == SampleOf([l \in 0..(obj.nHeight - 1) |-> l + 1], obj.nZernike)

StartState ==
    /\ files = {}
    /\ self = NoObject
    /\ call = [op |-> "none"]
    /\ err = "None"
    /\ bMeasured = NoObject
    /\ drawn = NoObject
    /\ computed = 0

(***************************************************************************)
(* SpecCache: sessions constructed one after another over one cache of at  *)
(* most MaxFiles records.  Heights are requested in any order; the field   *)
(* of view, the telescope diameter and the star count vary for the        *)
(* one-mode, one-height configuration.                                     *)
(***************************************************************************)
CacheConfigs ==
    {Config(1, nZernike, 60, heights, 4, verbose, FALSE) :
        nZernike \in 1..2, heights \in HeightArrays(2), verbose \in BOOLEAN}
    \cup {Config(2, 1, 60, GridArray(1), 4, TRUE, FALSE)}
    \cup {Config(1, 1, fov, GridArray(1), DTel, TRUE, FALSE) : fov \in {30, 60}, DTel \in {4, 8}}

CacheConstruct ==
    \E c \in CacheConfigs :
        /\ Served(c) \/ Cardinality(files) < MaxFiles
        /\ Tomography(c)

CacheNext == CacheConstruct

SpecCache == StartState /\ [][CacheNext]_vars

(***************************************************************************)
(* SpecStack: every configuration within the bounds; the first session     *)
(* computes its matrices, the later ones are served by its record.         *)
(***************************************************************************)
StackConfigs ==
    {Config(nStars, nZernike, 60, heights, 4, verbose, FALSE) :
        nStars \in 1..MaxStars, nZernike \in 1..MaxZernike,
        heights \in HeightArrays(MaxHeights), verbose \in BOOLEAN}

StackConstruct ==
    \E c \in StackConfigs :
        /\ Served(c) \/ files = {}
        /\ Tomography(c)

StackNext == StackConstruct

SpecStack == StartState /\ [][StackNext]_vars

(***************************************************************************)
(* SpecDraw: one-star sessions and the two realization draws, with and     *)
(* without a keep-list.                                                    *)
(***************************************************************************)
DrawConfigs ==
    {Config(1, nZernike, 60, GridArray(m), 4, TRUE, FALSE) :
        nZernike \in 1..MaxZernike, m \in 1..MaxHeights}

KeepLists == {None} \cup {List(S) : S \in SUBSET HeightGrid(MaxHeights)}

DrawConstruct ==
    \E c \in DrawConfigs :
        /\ Served(c) \/ files = {}
        /\ Tomography(c)

DrawKolmogorov ==
    /\ Has(self, "MComputed")
    /\ \E keepOnly \in KeepLists, sample \in Samples(self, {1, 2}) :
        generateTurbulentZernikesKolmogorov(FriedRadius, keepOnly, sample)

DrawVonKarman ==
    /\ Has(self, "MComputed")
    /\ \E keepOnly \in KeepLists, sample \in Samples(self, {1, 2}) :
        generateTurbulentZernikesVonKarman(FriedRadius, OuterScale, keepOnly, sample)

DrawNext == DrawConstruct \/ DrawKolmogorov \/ DrawVonKarman

SpecDraw == StartState /\ [][DrawNext]_vars

(***************************************************************************)
(* SpecSolve: the experiment of lines 386-395: sessions over the full      *)
(* grid, a draw, the measurement, the two solvers, called in any order.    *)
(***************************************************************************)
SolveConfigs ==
    {Config(nStars, MaxZernike, 60, GridArray(MaxHeights), 4, TRUE, FALSE) :
        nStars \in 1..MaxStars}

SolveConstruct ==
    \E c \in SolveConfigs :
        /\ Served(c) \/ Cardinality(files) < MaxFiles
        /\ Tomography(c)

SolveDraw ==
    generateTurbulentZernikesKolmogorov(FriedRadius, None, LayeredSample(self))

SolveWFS == generateWFS

SolveSVD ==
    \E regularize \in BOOLEAN, zeroPivot \in BOOLEAN :
        solveSVD(bMeasured, regularize, zeroPivot)

SolveFASTA == solveFASTA(bMeasured)

SolveNext == SolveConstruct \/ SolveDraw \/ SolveWFS \/ SolveSVD \/ SolveFASTA

SpecSolve == StartState /\ [][SolveNext]_vars

(***************************************************************************)
(* SpecCov: one-star, one-height sessions of 1..MaxModes modes, with and   *)
(* without the piston mode, and the covariance of the two models.          *)
(***************************************************************************)
MaxModes == 7

CovConfigs ==
    {Config(1, nZernike, 60, GridArray(1), 4, TRUE, addPiston) :
        nZernike \in 1..MaxModes, addPiston \in BOOLEAN}

CovConstruct ==
    \E c \in CovConfigs :
        /\ Served(c) \/ files = {}
        /\ Tomography(c)

CovKolmogorov ==
    generateTurbulentZernikesKolmogorov(FriedRadius, None, LayeredSample(self))

CovVonKarman ==
    generateTurbulentZernikesVonKarman(FriedRadius, OuterScale, None, LayeredSample(self))

CovNext == CovConstruct \/ CovKolmogorov \/ CovVonKarman

SpecCov == StartState /\ [][CovNext]_vars

----------------------------------------------------------------------------
(***************************************************************************)
(* The properties.                                                         *)
(***************************************************************************)
Modes == 0..(self.nZernike - 1)

Layers == 0..(self.nHeight - 1)

Stars == 0..(self.nStars - 1)

Constructed == call.op = "tomography"

\* C1: after stackProjection, MStack has nStars*nZernike rows and
\* nHeight*nZernike columns, its block at block-row i (star) and block-column
\* j (layer) is M[:,:,j,i], and every entry lies in one of these blocks.
C1_StackBlocks ==
    Has(self, "MStack") =>
        /\ DOMAIN self.MStack =
              (0..(self.nStars * self.nZernike - 1)) \X (0..(self.nHeight * self.nZernike - 1))
        /\ \A i \in Stars, j \in Layers, r \in Modes, c \in Modes :
              self.MStack[<<i * self.nZernike + r, j * self.nZernike + c>>]
                 = self.M[<<r, c, j, i>>]
        /\ \A p \in DOMAIN self.MStack :
              \E i \in Stars, j \in Layers, r \in Modes, c \in Modes :
                 p = <<i * self.nZernike + r, j * self.nZernike + c>>

\* a stacked matrix of several stars, layers and modes, built from a record
C1_Witness ==
    /\ Constructed /\ call.hit /\ Has(self, "MStack")
    /\ self.nStars >= 2 /\ self.nHeight >= 2 /\ self.nZernike >= 2

\* record f holds what the configuration of session obj asks for: the same
\* star count, field of view and diameter, at least as many modes, and every
\* requested height
Covers(f, obj) ==
    /\ f.arr_2 = obj.nStars
    /\ f.arr_3 >= obj.nZernike
    /\ f.arr_4 = obj.fov
    /\ f.arr_5 = obj.DTel
    /\ Range(obj.heights) \subseteq Range(f.arr_1)

\* C2: on a hit, M[:,:,i,j] is the stored projection matrix of the i-th
\* requested height and star j, cut to the first nZernike modes, whatever
\* the order of the requested heights; the record used covers the request,
\* and a request that some record covers is a hit.
C2_SliceIsRequest ==
    Constructed =>
        /\ ~call.hit => ~\E f \in files : f.id # call.file /\ Covers(f, self)
        /\ call.hit =>
              \E f \in files :
                 /\ f.id = call.file
                 /\ Covers(f, self)
                 /\ \A i \in Layers, j \in Stars, r \in Modes, c \in Modes :
                       \E k \in DOMAIN f.arr_1 :
                          /\ f.arr_1[k] = self.heights[i]
                          /\ self.M[<<r, c, i, j>>] = f.arr_0[<<r, c, k, j>>]

\* what C3 says of one constructor call
C3_Step ==
    call'.op = "tomography" =>
        /\ files \subseteq files'
        /\ \E f \in files' : Covers(f, self')
        /\ IF \E f \in files : Covers(f, self')
           THEN /\ files' = files
                /\ computed' = 0
                /\ call'.hit
           ELSE /\ computed' = self'.nHeight * self'.nStars
                /\ ~call'.hit
                /\ \E f \in files' :
                      /\ files' = files \cup {f}
                      /\ f.id \notin {g.id : g \in files}
                      /\ f.id = call'.file
                      /\ Covers(f, self')

\* C3: a construction that finds a covering record computes no projection
\* matrix and stores nothing; one that finds none computes each matrix once
\* and stores one record under an identifier no record had; no record is ever
\* dropped or changed, and after either a record covers the configuration, so
\* that later constructions of it (or of a part of it) are hits and the
\* number of records no longer grows.
C3_CacheReuse == [][C3_Step]_vars

\* a hit on a record that holds more heights and more modes than were asked
\* for, with a second record in the cache
C3_Witness ==
    /\ Constructed /\ call.hit /\ computed = 0 /\ Cardinality(files) = 2
    /\ \E f \in files : /\ f.id = call.file
                        /\ f.arr_3 > self.nZernike
                        /\ Len0(f.arr_1) > self.nHeight

IsDraw ==
    call.op \in {"generateTurbulentZernikesKolmogorov", "generateTurbulentZernikesVonKarman"}

\* C4: a realization draw given a keep-list leaves zero the layers whose
\* altitude is not listed and the drawn values in the others, and
\* aStack['Original'] is the layer-major flattening of the realization; with
\* no keep-list no layer is zeroed.  For the draw of either model.
C4_KeepList ==
    IsDraw =>
        /\ err = "None"
        /\ \A l \in Layers, z \in Modes :
              self.a.Original[<<z, l>>] =
                 IF /\ call.keepOnly.given
                    /\ \A k \in call.keepOnly.list : self.heights[l] # k * MetresPerKm
                 THEN 0
                 ELSE drawn[<<z, l>>]
        /\ \A l \in Layers, z \in Modes :
              self.aStack.Original[l * self.nZernike + z] = self.a.Original[<<z, l>>]

Azimuthal(i) == nollIndices(i + self.noll0)[2]

\* C5: for both models, covariance[i,j] is zero whenever the azimuthal
\* frequencies of modes i and j differ or i-j is odd, and the other entries
\* are the ones that are assigned.
C5_SelectionRule ==
    Has(self, "covariance") =>
        \A i \in Modes, j \in Modes :
            (self.covariance[<<i, j>>] = Zero) <=> (Azimuthal(i) # Azimuthal(j) \/ ~even(i - j))

\* a von Karman covariance with an assigned off-diagonal entry and an
\* unassigned entry of even index difference
C5_Witness ==
    /\ call.op = "generateTurbulentZernikesVonKarman" /\ Has(self, "covariance")
    /\ \E i \in Modes, j \in Modes : i # j /\ self.covariance[<<i, j>>] # Zero
    /\ \E i \in Modes, j \in Modes : even(i - j) /\ self.covariance[<<i, j>>] = Zero

\* C6: for both models the covariance is symmetric.
C6_Symmetric ==
    Has(self, "covariance") =>
        \A i \in Modes, j \in Modes : self.covariance[<<i, j>>] = self.covariance[<<j, i>>]

\* C7: a['SVD'] has nZernike rows and nHeight columns with
\* a['SVD'][z,l] = aStack['SVD'][l*nZernike+z]; aStack['Original'] is laid out
\* the same way, flattening and reshaping being inverse to each other; and in
\* the measurement the columns of block l of MStack multiply the coefficients
\* of layer l.
C7_LayerMajor ==
    /\ (Has(self, "a") /\ Has(self.a, "SVD")) =>
          /\ DOMAIN self.a.SVD = Modes \X Layers
          /\ \A z \in Modes, l \in Layers :
                self.a.SVD[<<z, l>>] = self.aStack.SVD[l * self.nZernike + z]
          /\ Flatten(Transpose(self.a.SVD)) = self.aStack.SVD
    /\ (Has(self, "a") /\ Has(self.a, "Original")) =>
          /\ \A z \in Modes, l \in Layers :
                self.aStack.Original[l * self.nZernike + z] = self.a.Original[<<z, l>>]
          /\ Transpose(Reshape(self.aStack.Original, self.nHeight, self.nZernike))
                = self.a.Original
    /\ (call.op = "generateWFS" /\ err = "None") =>
          \A s \in Stars, r \in Modes, l \in Layers, z \in Modes :
             bMeasured[s * self.nZernike + r][l * self.nZernike + z]
                = [m |-> self.M[<<r, z, l, s>>], x |-> self.a.Original[<<z, l>>]]

\* a least-squares solve that returned, on a session of several layers and
\* modes that also holds a realization
C7_Witness ==
    /\ call.op = "solveSVD" /\ err = "None"
    /\ Has(self.a, "SVD") /\ Has(self.a, "Original")
    /\ self.nHeight >= 2 /\ self.nZernike >= 2

\* C8: solveSVD on a matrix that is not invertible raises the singular-matrix
\* error and leaves aStack['SVD'] and a['SVD'] as they were.
C8_SingularAborts ==
    (call.op = "solveSVD" /\ call.singular) =>
        /\ err = "LinAlgError"
        /\ self.aStack = call.before.aStack
        /\ self.a = call.before.a

\* C9: the solve entry points are functions of the stacked matrix and of the
\* arguments passed and need no realization drawn earlier in the session: on
\* a session that holds its stacked matrix neither solveSVD nor solveFASTA
\* fails for want of one.
C9_NoDrawNeeded ==
    (call.op \in {"solveSVD", "solveFASTA"} /\ Has(self, "MStack")) =>
        err # "KeyError"

\* C10: after the constructor, on every path, MStack exists and is the
\* stacking of M, and MComputed is true.
C10_StackedAfterInit ==
    Constructed =>
        /\ Has(self, "MStack")
        /\ self.MStack = stackProjection(self).MStack
        /\ self.MComputed

====
